---- MODULE Spec2Model ----
(***************************************************************************)
(* State-machine model of the chat backend (src/main.py, FastAPI +         *)
(* SQLAlchemy over SQLite) and of the microblog variant (src/server.py,    *)
(* Flask).                                                                 *)
(*                                                                         *)
(* The database tables are functions from primary key to row.  SQLite      *)
(* gives an INTEGER PRIMARY KEY column the value max(id)+1, so the id of   *)
(* the last row is handed out again after that row is deleted.  Columns    *)
(* that no handler branches on (display_name, last_active, online,         *)
(* timestamp, is_action, name, icon) are left out of the rows.             *)
(*                                                                         *)
(* Plain "def" endpoints are served from a pool of worker threads, one     *)
(* database session per request; an action is one request, from parsing    *)
(* to response.  register and create_alternate read, decide and then       *)
(* insert, so they are split at that point to let requests interleave.     *)
(* The WebSocket endpoint is a coroutine on the single event loop: it      *)
(* is split at its await points (accept, receive_json, each send_json).    *)
(***************************************************************************)
EXTENDS Integers, Sequences, FiniteSets, TLC

\* ------------------------------------------------------------- bounds
MaxUsers == 2        \* rows in users
MaxTokens == 2       \* logins performed (uuid4 values drawn)
MaxRows == 1         \* rows in messages, and in private_messages
MaxAlternates == 22  \* rows in alternate_profiles: the cap of 20 and room to pass it
MaxRequests == 2     \* message, edit and delete requests that commit
MaxInflight == 2     \* requests between their check and their insert

\* ------------------------------------------------------------- inputs
None == "None"
UserNames == {"ann", "bob"}
Passwords == {"pw", "bad"}
Contents == {"hi", "yo"}
Images == {"a.png"}
ChannelIds == {1, 2}
TokenInputs == 0..MaxTokens
UserIdInputs == 0..MaxUsers
RowIdInputs == 0..MaxRows
AlternateIdInputs == 0..2
Sockets == {1, 2}    \* the WebSocket connections: a sender and one other

VARIABLES
    users,               \* users table: Seq of [username, password, profile_picture]
    tokens,              \* tokens table: token string -> user_id
    servers,             \* servers table: set of ids
    channels,            \* channels table: id -> server_id
    alternate_profiles,  \* alternate_profiles table: id -> user_id
    messages,            \* messages table: id -> [user_id, channel_id, content, is_edited, alternate_id]
    private_messages,    \* private_messages table: id -> [sender_id, receiver_id, content, is_edited]
    active_connections,  \* channel_id -> Seq of websockets (main.py line 27)
    ws,                  \* per websocket: client ("open", "closed" by the client, "aborted" by
                         \* the server), handler position pc, fan-out loop state
    inbox,               \* per websocket: the event frames its client received, in order
    tasks,               \* send_json coroutines scheduled by create_task, not yet run
    pending,             \* requests that passed their check and have not inserted yet
    blog_users,          \* server.py: user table, Seq of [username, password]
    resp,                \* the last request served and its response
    issued,              \* history: token -> user it was issued to at login
    revoked,             \* history: tokens a successful logout was performed with
    committed,           \* history: [kind, id, seq] of every committed change of a message row
    served               \* history: number of committing message requests (bounded)

dbvars == <<users, tokens, servers, channels, alternate_profiles, messages,
            private_messages>>
memvars == <<active_connections, ws, inbox, tasks>>
histvars == <<issued, revoked, committed, served>>
vars == <<users, tokens, servers, channels, alternate_profiles, messages,
          private_messages, active_connections, ws, inbox, tasks, pending,
          blog_users, resp, issued, revoked, committed, served>>

\* ------------------------------------------------------------- helpers
Max(S) == CHOOSE x \in S : \A y \in S : y <= x

\* The id SQLite gives the next row of a table keyed by INTEGER PRIMARY KEY.
NextId(table) == IF DOMAIN table = {} THEN 1 ELSE Max(DOMAIN table) + 1

Put(table, id, row) == [i \in DOMAIN table \cup {id} |-> IF i = id THEN row ELSE table[i]]

Drop(table, id) == [i \in DOMAIN table \ {id} |-> table[i]]

\* A response: the operation, the HTTP status (500: an exception that no
\* handler catches; 0: not an HTTP exchange), the detail string, the inputs.
Resp(op, status, detail, arg) == [op |-> op, status |-> status, detail |-> detail, arg |-> arg]

NoArg == [none |-> TRUE]

\* db.query(Token).filter(Token.token == token).first()
TokenEntry(token) == IF token \in DOMAIN tokens THEN tokens[token] ELSE 0

\* db.query(User).filter(User.id == user_id).first() is not None
UserExists(user_id) == user_id \in DOMAIN users

\* The unique index on users.username: SQLite treats NULLs as distinct.
UsernameTaken(table, username, except) ==
    /\ username # None
    /\ \E i \in DOMAIN table : i # except /\ table[i].username = username

Init ==
    /\ users = << >>
    /\ tokens = << >>
    /\ servers = {}
    /\ channels = << >>
    /\ alternate_profiles = << >>
    /\ messages = << >>
    /\ private_messages = << >>
    /\ active_connections = << >>
    /\ ws = [w \in Sockets |-> [client |-> "none", pc |-> "none", channel_id |-> 0,
                                idx |-> 0, payload |-> NoArg, targets |-> {}]]
    /\ inbox = [w \in Sockets |-> << >>]
    /\ tasks = << >>
    /\ pending = << >>
    /\ blog_users = << >>
    /\ resp = Resp("start", 0, "", NoArg)
    /\ issued = << >>
    /\ revoked = {}
    /\ committed = {}
    /\ served = 0

\* ------------------------------------------------------------- accounts

\* register, lines 191-193: the lookup and the 400, or the request goes on
\* to its insert.
register_check(username) ==
    /\ Len(pending) < MaxInflight
    /\ IF \E i \in DOMAIN users : users[i].username = username
       THEN /\ resp' = Resp("register", 400, "Username already exists", [username |-> username])
            /\ UNCHANGED pending
       ELSE /\ pending' = Append(pending, [op |-> "register", username |-> username])
            /\ resp' = Resp("register-check", 0, "", [username |-> username])
    /\ UNCHANGED <<dbvars, memvars, blog_users, histvars>>

RemoveAt(s, k) == [i \in 1..(Len(s) - 1) |-> IF i < k THEN s[i] ELSE s[i + 1]]

\* register, lines 194-197: the insert; the commit raises IntegrityError on
\* the unique index when another request inserted the name in between.
register_commit(k) ==
    /\ k \in DOMAIN pending
    /\ pending[k].op = "register"
    /\ Len(users) < MaxUsers
    /\ LET username == pending[k].username IN
       IF UsernameTaken(users, username, 0)
       THEN /\ resp' = Resp("register", 500, "IntegrityError", [username |-> username])
            /\ UNCHANGED users
       ELSE /\ users' = Append(users, [username |-> username, password |-> "pw",
                                       profile_picture |-> None])
            /\ resp' = Resp("register", 200, "User registered successfully",
                            [username |-> username])
    /\ pending' = RemoveAt(pending, k)
    /\ UNCHANGED <<tokens, servers, channels, alternate_profiles, messages,
                   private_messages, memvars, blog_users, histvars>>

\* str(uuid.uuid4()): a value no earlier call returned.
uuid4 == Cardinality(DOMAIN issued) + 1

TokenInsert(table, token, user_id) == Put(table, token, user_id)

\* login, lines 199-208.
login(username, password) ==
    LET found == {i \in DOMAIN users : users[i].username = username
                                       /\ users[i].password = password} IN
    /\ IF found = {}
       THEN /\ resp' = Resp("login", 400, "Invalid credentials",
                            [username |-> username, token |-> 0])
            /\ UNCHANGED <<tokens, issued>>
       ELSE LET user_id == CHOOSE i \in found : TRUE IN
            /\ uuid4 <= MaxTokens
            /\ tokens' = TokenInsert(tokens, uuid4, user_id)
            /\ issued' = Put(issued, uuid4, user_id)
            /\ resp' = Resp("login", 200, "Logged in",
                            [username |-> username, token |-> uuid4])
    /\ UNCHANGED <<users, servers, channels, alternate_profiles, messages,
                   private_messages, memvars, pending, blog_users, revoked,
                   committed, served>>

\* get_self, lines 210-220: .first().user_id on no row is an AttributeError.
get_self(token) ==
    /\ IF TokenEntry(token) = 0
       THEN resp' = Resp("get-self", 500, "AttributeError", [token |-> token, user_id |-> 0])
       ELSE resp' = Resp("get-self", 200, "", [token |-> token, user_id |-> TokenEntry(token)])
    /\ UNCHANGED <<dbvars, memvars, pending, blog_users, histvars>>

\* Mutant of TokenDelete: the row is not deleted.
TokenDeleteKeeps(table, token) == table

TokenDelete(table, token) == Drop(table, token)

\* logout, lines 230-242.  The 400 for a missing user leaves without a
\* commit, so the delete of the token is rolled back with the session.
logout(token) ==
    /\ IF TokenEntry(token) = 0
       THEN /\ resp' = Resp("logout", 400, "Invalid token", [token |-> token, user_id |-> 0])
            /\ UNCHANGED <<tokens, revoked>>
       ELSE IF ~UserExists(TokenEntry(token))
       THEN /\ resp' = Resp("logout", 400, "User not found", [token |-> token, user_id |-> 0])
            /\ UNCHANGED <<tokens, revoked>>
       ELSE /\ tokens' = TokenDelete(tokens, token)
            /\ revoked' = revoked \cup {token}
            /\ resp' = Resp("logout", 200, "Logged out",
                            [token |-> token, user_id |-> TokenEntry(token)])
    /\ UNCHANGED <<users, servers, channels, alternate_profiles, messages,
                   private_messages, memvars, pending, blog_users, issued,
                   committed, served>>

\* upload_profile_picture, lines 244-257.
upload_profile_picture(token, image_url) ==
    LET arg == [token |-> token, user_id |-> TokenEntry(token)] IN
    /\ IF TokenEntry(token) = 0
       THEN /\ resp' = Resp("upload-profile-picture", 400, "Invalid token", arg)
            /\ UNCHANGED users
       ELSE IF image_url = None
       THEN /\ resp' = Resp("upload-profile-picture", 400, "Image URL is required", arg)
            /\ UNCHANGED users
       ELSE IF ~UserExists(TokenEntry(token))
       THEN /\ resp' = Resp("upload-profile-picture", 400, "User not found", arg)
            /\ UNCHANGED users
       ELSE /\ users' = [users EXCEPT ![TokenEntry(token)].profile_picture = image_url]
            /\ resp' = Resp("upload-profile-picture", 200, "Profile picture updated", arg)
    /\ UNCHANGED <<tokens, servers, channels, alternate_profiles, messages,
                   private_messages, memvars, pending, blog_users, histvars>>

\* update_profile, lines 372-382.  username defaults to None and only ""
\* is skipped; display_name is not a column of the model.  The commit
\* raises IntegrityError on the unique index.
update_profile(token, username) ==
    LET arg == [token |-> token, username |-> username] IN
    /\ IF TokenEntry(token) = 0
       THEN /\ resp' = Resp("update-profile", 500, "AttributeError", arg)
            /\ UNCHANGED users
       ELSE IF ~UserExists(TokenEntry(token))
       THEN /\ resp' = Resp("update-profile", 400, "User not found", arg)
            /\ UNCHANGED users
       ELSE IF username = ""
       THEN /\ resp' = Resp("update-profile", 200, "Profile updated", arg)
            /\ UNCHANGED users
       ELSE IF UsernameTaken(users, username, TokenEntry(token))
       THEN /\ resp' = Resp("update-profile", 500, "IntegrityError", arg)
            /\ UNCHANGED users
       ELSE /\ users' = [users EXCEPT ![TokenEntry(token)].username = username]
            /\ resp' = Resp("update-profile", 200, "Profile updated", arg)
    /\ UNCHANGED <<tokens, servers, channels, alternate_profiles, messages,
                   private_messages, memvars, pending, blog_users, histvars>>

\* ------------------------------------------------------------- servers, channels

\* create_server, lines 259-264.
create_server ==
    /\ Cardinality(servers) < MaxRows
    /\ servers' = servers \cup {Cardinality(servers) + 1}
    /\ resp' = Resp("create-server", 200, "Server created", NoArg)
    /\ UNCHANGED <<users, tokens, channels, alternate_profiles, messages,
                   private_messages, memvars, pending, blog_users, histvars>>

\* create_channel, lines 266-273.
create_channel(server_id) ==
    /\ IF server_id \notin servers
       THEN /\ resp' = Resp("create-channel", 400, "Server not found", [server_id |-> server_id])
            /\ UNCHANGED channels
       ELSE /\ Cardinality(DOMAIN channels) < MaxRows
            /\ channels' = Put(channels, NextId(channels), server_id)
            /\ resp' = Resp("create-channel", 200, "Channel created", [server_id |-> server_id])
    /\ UNCHANGED <<users, tokens, servers, alternate_profiles, messages,
                   private_messages, memvars, pending, blog_users, histvars>>

\* ------------------------------------------------------------- alternates
AlternateCap == 20

\* len(user.alternates)
Alternates(user_id) == {a \in DOMAIN alternate_profiles : alternate_profiles[a] = user_id}

\* create_alternate, lines 391-395: the lookups and the 400s.
create_alternate_check(user_id) ==
    /\ Len(pending) < MaxInflight
    /\ IF ~UserExists(user_id)
       THEN /\ resp' = Resp("create-alternate", 400, "User not found", [user_id |-> user_id])
            /\ UNCHANGED pending
       ELSE IF Cardinality(Alternates(user_id)) >= AlternateCap
       THEN /\ resp' = Resp("create-alternate", 400, "Maximum of 20 alternates allowed",
                            [user_id |-> user_id])
            /\ UNCHANGED pending
       ELSE /\ pending' = Append(pending, [op |-> "create-alternate", user_id |-> user_id])
            /\ resp' = Resp("create-alternate-check", 0, "", [user_id |-> user_id])
    /\ UNCHANGED <<dbvars, memvars, blog_users, histvars>>

\* create_alternate, lines 396-403: the insert.
create_alternate_commit(k) ==
    /\ k \in DOMAIN pending
    /\ pending[k].op = "create-alternate"
    /\ Cardinality(DOMAIN alternate_profiles) < MaxAlternates
    /\ alternate_profiles' = Put(alternate_profiles, NextId(alternate_profiles),
                                 pending[k].user_id)
    /\ resp' = Resp("create-alternate", 200, "Alternate created",
                    [user_id |-> pending[k].user_id])
    /\ pending' = RemoveAt(pending, k)
    /\ UNCHANGED <<users, tokens, servers, channels, messages, private_messages,
                   memvars, blog_users, histvars>>

\* delete_alternate, lines 405-412: the row stays, unlinked.
delete_alternate(alternate_id) ==
    /\ IF alternate_id \notin DOMAIN alternate_profiles
       THEN /\ resp' = Resp("delete-alternate", 400, "Alternate not found",
                            [alternate_id |-> alternate_id])
            /\ UNCHANGED alternate_profiles
       ELSE /\ alternate_profiles' = [alternate_profiles EXCEPT ![alternate_id] = 0]
            /\ resp' = Resp("delete-alternate", 200, "Alternate deleted",
                            [alternate_id |-> alternate_id])
    /\ UNCHANGED <<users, tokens, servers, channels, messages, private_messages,
                   memvars, pending, blog_users, histvars>>

\* ------------------------------------------------------------- private messages

\* send_private_message, lines 471-485.
send_private_message(token, receiver_id, content) ==
    LET arg == [token |-> token, user_id |-> TokenEntry(token), receiver_id |-> receiver_id] IN
    /\ IF TokenEntry(token) = 0
       THEN /\ resp' = Resp("send-private", 400, "Invalid token", arg)
            /\ UNCHANGED private_messages
       ELSE /\ Cardinality(DOMAIN private_messages) < MaxRows
            /\ private_messages' = Put(private_messages, NextId(private_messages),
                    [sender_id |-> TokenEntry(token), receiver_id |-> receiver_id,
                     content |-> content, is_edited |-> FALSE])
            /\ resp' = Resp("send-private", 200, "Private message sent", arg)
    /\ UNCHANGED <<users, tokens, servers, channels, alternate_profiles, messages,
                   memvars, pending, blog_users, histvars>>

\* get_private_messages, lines 487-509.
get_private_messages(token, other_user_id) ==
    LET arg == [token |-> token, user_id |-> TokenEntry(token)] IN
    /\ IF TokenEntry(token) = 0
       THEN resp' = Resp("private-messages", 400, "Invalid token", arg)
       ELSE resp' = Resp("private-messages", 200, "", arg)
    /\ UNCHANGED <<dbvars, memvars, pending, blog_users, histvars>>

\* Mutant of NotOwner: the comparison is left out.
NotOwnerNever(sender_id, user_id) == FALSE

\* pm.sender_id != user_id, message.user_id != user_id
NotOwner(sender_id, user_id) == sender_id # user_id

\* edit_private_message, lines 511-526.
edit_private_message(pm_id, user_id, new_content) ==
    LET arg == [id |-> pm_id, user_id |-> user_id, new_content |-> new_content] IN
    /\ IF pm_id = 0 \/ user_id = 0 \/ new_content = ""
       THEN /\ resp' = Resp("edit-private", 400, "PM ID, User ID, and new content are required", arg)
            /\ UNCHANGED private_messages
       ELSE IF pm_id \notin DOMAIN private_messages
       THEN /\ resp' = Resp("edit-private", 400, "Private message not found", arg)
            /\ UNCHANGED private_messages
       ELSE IF NotOwner(private_messages[pm_id].sender_id, user_id)
       THEN /\ resp' = Resp("edit-private", 403, "You can only edit your own private messages", arg)
            /\ UNCHANGED private_messages
       ELSE /\ private_messages' = [private_messages EXCEPT ![pm_id].content = new_content,
                                                           ![pm_id].is_edited = TRUE]
            /\ resp' = Resp("edit-private", 200, "Private message edited", arg)
    /\ UNCHANGED <<users, tokens, servers, channels, alternate_profiles, messages,
                   memvars, pending, blog_users, histvars>>

\* delete_private_message, lines 528-541.
delete_private_message(pm_id, user_id) ==
    LET arg == [id |-> pm_id, user_id |-> user_id, new_content |-> ""] IN
    /\ IF pm_id = 0 \/ user_id = 0
       THEN /\ resp' = Resp("delete-private", 400, "PM ID and User ID are required", arg)
            /\ UNCHANGED private_messages
       ELSE IF pm_id \notin DOMAIN private_messages
       THEN /\ resp' = Resp("delete-private", 400, "Private message not found", arg)
            /\ UNCHANGED private_messages
       ELSE IF NotOwner(private_messages[pm_id].sender_id, user_id)
       THEN /\ resp' = Resp("delete-private", 403, "You can only delete your own private messages", arg)
            /\ UNCHANGED private_messages
       ELSE /\ private_messages' = Drop(private_messages, pm_id)
            /\ resp' = Resp("delete-private", 200, "Private message deleted", arg)
    /\ UNCHANGED <<users, tokens, servers, channels, alternate_profiles, messages,
                   memvars, pending, blog_users, histvars>>

\* ------------------------------------------------------------- WebSocket endpoint

\* A connection a frame can be written to: its client has not gone away and
\* its endpoint coroutine has not ended.
Live(w) == ws[w].client = "open" /\ ws[w].pc \in {"recv", "send"}

\* What conn.send_json does on a connection that is gone depends on the
\* ASGI server and the framework version: the frame is dropped without an
\* error, WebSocketDisconnect is raised, or another exception is raised.
SendFailures == {"drop", "disconnect", "error"}

\* active_connections[channel_id], or no connections when the key is absent
Connections(channel_id) ==
    IF channel_id \in DOMAIN active_connections THEN active_connections[channel_id] ELSE << >>

Members(channel_id) == {Connections(channel_id)[i] : i \in 1..Len(Connections(channel_id))}

\* list.remove(websocket): the first occurrence
Remove(conns, w) ==
    LET k == CHOOSE i \in 1..Len(conns) : conns[i] = w /\ \A j \in 1..(i - 1) : conns[j] # w
    IN RemoveAt(conns, k)

\* The frames of one event: "seq" numbers the committing request it reports
\* (history, not on the wire); channel_id is the channel it was sent for.
Payload(event, id, channel_id, seq) ==
    [event |-> event, id |-> id, channel_id |-> channel_id, seq |-> seq]

\* lines 278-281: accept, create the list on first use, append.
ws_accept(w, channel_id) ==
    /\ ws[w].pc = "none"
    /\ \A v \in Sockets : v < w => ws[v].pc # "none"
    /\ active_connections' = Put(active_connections, channel_id,
                                 Append(Connections(channel_id), w))
    /\ ws' = [ws EXCEPT ![w].client = "open", ![w].pc = "recv", ![w].channel_id = channel_id]
    /\ resp' = Resp("ws-accept", 0, "", [w |-> w, channel_id |-> channel_id])
    /\ UNCHANGED <<dbvars, inbox, tasks, pending, blog_users, histvars>>

\* The client goes away.  The endpoint learns of it at its next receive_json.
ws_close(w) ==
    /\ ws[w].client = "open"
    /\ ws' = [ws EXCEPT ![w].client = "closed"]
    /\ resp' = Resp("ws-close", 0, "", [w |-> w])
    /\ UNCHANGED <<dbvars, active_connections, inbox, tasks, pending, blog_users, histvars>>

\* lines 284, 326-327: receive_json raises WebSocketDisconnect, the handler
\* removes its own websocket and returns.
ws_disconnect(w) ==
    /\ ws[w].pc = "recv"
    /\ ws[w].client = "closed"
    /\ active_connections' = [active_connections EXCEPT
                                ![ws[w].channel_id] = Remove(@, w)]
    /\ ws' = [ws EXCEPT ![w].pc = "done"]
    /\ resp' = Resp("ws-disconnect", 0, "", [w |-> w])
    /\ UNCHANGED <<dbvars, inbox, tasks, pending, blog_users, histvars>>

\* The connection handler w sends to at index i of the list, 0 past its end.
Target(w, i) ==
    IF i >= Len(Connections(ws[w].channel_id)) THEN 0
    ELSE Connections(ws[w].channel_id)[i + 1]

\* What the send of handler w at index i of the list comes to: the loop is
\* over ("end"), the frame is written ("sent"), or the connection is gone
\* and the send ends as outcome says.
SendResult(w, i, outcome) ==
    LET conns == Connections(ws[w].channel_id) IN
    IF i >= Len(conns) THEN "end"
    ELSE IF Live(conns[i + 1]) THEN "sent"
    ELSE outcome

\* lines 324-327, one turn of "for conn in active_connections[channel_id]:
\* await conn.send_json(response)" of handler w, standing at index i of the
\* list as it is now.  An exception leaves the loop: WebSocketDisconnect is
\* caught at line 326, which removes w itself; any other ends the coroutine
\* with w still in the list.  Either way the server closes w's connection.
FanOutStep(w, i, payload, targets, outcome) ==
    LET conns == Connections(ws[w].channel_id)
        result == SendResult(w, i, outcome)
        on == [ws[w] EXCEPT !.pc = "send", !.idx = i + 1, !.payload = payload,
                            !.targets = targets]
        off == [ws[w] EXCEPT !.client = "aborted", !.pc = "done", !.idx = 0,
                             !.payload = payload, !.targets = targets]
    IN
    /\ ws' = [ws EXCEPT ![w] = CASE result = "end" -> [@ EXCEPT !.pc = "recv", !.idx = 0]
                                 [] result \in {"sent", "drop"} -> on
                                 [] OTHER -> off]
    /\ inbox' = IF result = "sent"
                THEN [inbox EXCEPT ![conns[i + 1]] = Append(@, payload)]
                ELSE inbox
    /\ active_connections' = IF result = "disconnect"
                             THEN [active_connections EXCEPT
                                     ![ws[w].channel_id] = Remove(@, w)]
                             ELSE active_connections

\* The handler resumes from the send it was suspended in.
ws_send(w, outcome) ==
    /\ ws[w].pc = "send"
    /\ FanOutStep(w, ws[w].idx, ws[w].payload, ws[w].targets, outcome)
    /\ resp' = Resp("ws-send", 0, SendResult(w, ws[w].idx, outcome),
                    [w |-> w, conn |-> Target(w, ws[w].idx), payload |-> ws[w].payload])
    /\ UNCHANGED <<dbvars, tasks, pending, blog_users, histvars>>

\* Mutant of MessageInsert: the row never reaches the table.
MessageInsertLost(table, id, row) == table

MessageInsert(table, id, row) == Put(table, id, row)

\* .first().name / .first().icon of lines 317 and 322 on an alternate_id
\* that is not 0: AttributeError when there is no such row.
AlternateMissing(alternate_id) ==
    alternate_id # 0 /\ alternate_id \notin DOMAIN alternate_profiles

\* lines 284-325: one inbound frame, up to the first send of the fan-out.
\* The {"error": ...} reply of lines 292 and 298 goes to the sender alone and
\* is no event: it is the response, and inbox holds the event frames.
ws_receive(w, token, content, alternate_id, outcome) ==
    LET channel_id == ws[w].channel_id
        id == NextId(messages)
        row == [user_id |-> TokenEntry(token), channel_id |-> channel_id,
                content |-> content, is_edited |-> FALSE, alternate_id |-> alternate_id]
        seq == served + 1
        payload == Payload("new", id, channel_id, seq)
        arg == [w |-> w, token |-> token, user_id |-> TokenEntry(token),
                channel_id |-> channel_id, id |-> id, seq |-> seq, conn |-> Target(w, 0),
                payload |-> payload]
    IN
    /\ ws[w].pc = "recv"
    /\ ws[w].client = "open"
    /\ IF TokenEntry(token) = 0
       THEN /\ resp' = Resp("ws-message", 0, "Invalid token", arg)
            /\ UNCHANGED <<messages, active_connections, ws, inbox, committed, served>>
       ELSE IF ~UserExists(TokenEntry(token))
       THEN /\ resp' = Resp("ws-message", 0, "User not found", arg)
            /\ UNCHANGED <<messages, active_connections, ws, inbox, committed, served>>
       ELSE /\ served < MaxRequests
            /\ Cardinality(DOMAIN messages) < MaxRows
            /\ messages' = MessageInsert(messages, id, row)
            /\ served' = seq
            /\ committed' = IF id \in DOMAIN messages' /\ id \notin DOMAIN messages
                            THEN committed \cup {[kind |-> "new", id |-> id, seq |-> seq]}
                            ELSE committed
            /\ IF AlternateMissing(alternate_id)
               THEN /\ ws' = [ws EXCEPT ![w] = [@ EXCEPT !.client = "aborted", !.pc = "done",
                                                         !.payload = payload,
                                                         !.targets = Members(channel_id)]]
                    /\ resp' = Resp("ws-message", 0, "AttributeError", arg)
                    /\ UNCHANGED <<active_connections, inbox>>
               ELSE /\ FanOutStep(w, 0, payload, Members(channel_id), outcome)
                    /\ resp' = Resp("ws-message", 0, SendResult(w, 0, outcome), arg)
    /\ UNCHANGED <<users, tokens, servers, channels, alternate_profiles,
                   private_messages, tasks, pending, blog_users, issued, revoked>>

\* ------------------------------------------------------------- edit, delete, broadcast

\* asyncio.create_task needs a running event loop in the calling thread.  A
\* plain "def" endpoint runs on a worker thread, which has none: create_task
\* raises RuntimeError, which line 159 swallows.  Both cases are kept.
RunningLoop == BOOLEAN

\* Mutant of broadcast_to_channel: the tasks go to the connections of every
\* channel.
broadcast_to_every_channel(channel_id, payload, loop) ==
    IF loop
    THEN tasks \o [i \in 1..Cardinality({w \in Sockets : ws[w].pc \in {"recv", "send"}}) |->
                      [conn |-> CHOOSE w \in Sockets :
                                   /\ ws[w].pc \in {"recv", "send"}
                                   /\ Cardinality({v \in Sockets : v < w /\ ws[v].pc \in {"recv", "send"}}) = i - 1,
                       payload |-> payload]]
    ELSE tasks

\* broadcast_to_channel, lines 151-160: the tasks it leaves scheduled.
broadcast_to_channel(channel_id, payload, loop) ==
    IF channel_id \in DOMAIN active_connections /\ loop
    THEN tasks \o [i \in 1..Len(active_connections[channel_id]) |->
                      [conn |-> active_connections[channel_id][i], payload |-> payload]]
    ELSE tasks

\* A scheduled connection.send_json(payload) runs; what it raises on a
\* connection that is gone is never retrieved.
run_task ==
    /\ tasks # << >>
    /\ inbox' = IF Live(Head(tasks).conn)
                THEN [inbox EXCEPT ![Head(tasks).conn] = Append(@, Head(tasks).payload)]
                ELSE inbox
    /\ tasks' = Tail(tasks)
    /\ resp' = Resp("task", 0, IF Live(Head(tasks).conn) THEN "sent" ELSE "failed",
                    [w |-> Head(tasks).conn, payload |-> Head(tasks).payload])
    /\ UNCHANGED <<dbvars, active_connections, ws, pending, blog_users, histvars>>

MessageUpdate(table, id, new_content) ==
    [table EXCEPT ![id].content = new_content, ![id].is_edited = TRUE]

MessageDelete(table, id) == Drop(table, id)

\* The check that stands between the request and the row, lines 420-426 and
\* 445-451: 0 when the request goes through, else the status it is refused with.
EditRefused(message_id, user_id, new_content) ==
    IF message_id = 0 \/ user_id = 0 \/ new_content = "" THEN 400
    ELSE IF message_id \notin DOMAIN messages THEN 400
    ELSE IF NotOwner(messages[message_id].user_id, user_id) THEN 403
    ELSE 0

DeleteRefused(message_id, user_id) ==
    IF message_id = 0 \/ user_id = 0 THEN 400
    ELSE IF message_id \notin DOMAIN messages THEN 400
    ELSE IF NotOwner(messages[message_id].user_id, user_id) THEN 403
    ELSE 0

\* edit_message, lines 415-438.
edit_message(message_id, user_id, new_content, loop) ==
    LET refused == EditRefused(message_id, user_id, new_content)
        seq == served + 1
        arg == [id |-> message_id, user_id |-> user_id, new_content |-> new_content]
    IN
    /\ IF refused # 0
       THEN /\ resp' = Resp("edit-message", refused,
                            CASE message_id = 0 \/ user_id = 0 \/ new_content = "" ->
                                     "Message ID, User ID, and new content are required"
                              [] refused = 403 -> "You can only edit your own messages"
                              [] OTHER -> "Message not found",
                            arg @@ [channel_id |-> 0, seq |-> 0])
            /\ UNCHANGED <<messages, tasks, committed, served>>
       ELSE LET channel_id == messages[message_id].channel_id IN
            /\ served < MaxRequests
            /\ messages' = MessageUpdate(messages, message_id, new_content)
            /\ served' = seq
            /\ committed' = IF /\ message_id \in DOMAIN messages'
                               /\ messages'[message_id].content = new_content
                               /\ messages'[message_id].is_edited
                            THEN committed \cup {[kind |-> "edit", id |-> message_id, seq |-> seq]}
                            ELSE committed
            /\ tasks' = broadcast_to_channel(channel_id,
                                             Payload("edit", message_id, channel_id, seq), loop)
            /\ resp' = Resp("edit-message", 200, "Message edited",
                            arg @@ [channel_id |-> channel_id, seq |-> seq])
    /\ UNCHANGED <<users, tokens, servers, channels, alternate_profiles,
                   private_messages, active_connections, ws, inbox, pending,
                   blog_users, issued, revoked>>

\* delete_message, lines 441-461.
delete_message(message_id, user_id, loop) ==
    LET refused == DeleteRefused(message_id, user_id)
        seq == served + 1
        arg == [id |-> message_id, user_id |-> user_id, new_content |-> ""]
    IN
    /\ IF refused # 0
       THEN /\ resp' = Resp("delete-message", refused,
                            CASE message_id = 0 \/ user_id = 0 ->
                                     "Message ID and User ID are required"
                              [] refused = 403 -> "You can only delete your own messages"
                              [] OTHER -> "Message not found",
                            arg @@ [channel_id |-> 0, seq |-> 0])
            /\ UNCHANGED <<messages, tasks, committed, served>>
       ELSE LET channel_id == messages[message_id].channel_id IN
            /\ served < MaxRequests
            /\ messages' = MessageDelete(messages, message_id)
            /\ served' = seq
            /\ committed' = IF message_id \notin DOMAIN messages'
                            THEN committed \cup {[kind |-> "delete", id |-> message_id, seq |-> seq]}
                            ELSE committed
            /\ tasks' = broadcast_to_channel(channel_id,
                                             Payload("delete", message_id, channel_id, seq), loop)
            /\ resp' = Resp("delete-message", 200, "Message deleted",
                            arg @@ [channel_id |-> channel_id, seq |-> seq])
    /\ UNCHANGED <<users, tokens, servers, channels, alternate_profiles,
                   private_messages, active_connections, ws, inbox, pending,
                   blog_users, issued, revoked>>

\* ------------------------------------------------------------- server.py

\* bcrypt.generate_password_hash: a salted digest, never the password itself.
generate_password_hash(password, salt) == [salt |-> salt, digest |-> <<"bcrypt", salt, password>>]

check_password_hash(hash, password) == hash.digest = <<"bcrypt", hash.salt, password>>

\* server.py register, lines 30-37: no lookup; the commit raises
\* IntegrityError on the unique index.
blog_register(username, password) ==
    /\ Len(blog_users) < MaxUsers
    /\ IF \E i \in DOMAIN blog_users : blog_users[i].username = username
       THEN /\ resp' = Resp("blog-register", 500, "IntegrityError", [username |-> username])
            /\ UNCHANGED blog_users
       ELSE /\ blog_users' = Append(blog_users,
                    [username |-> username,
                     password |-> generate_password_hash(password, Len(blog_users))])
            /\ resp' = Resp("blog-register", 201, "User registered successfully",
                            [username |-> username])
    /\ UNCHANGED <<dbvars, memvars, pending, histvars>>

\* server.py login, lines 39-46.
blog_login(username, password) ==
    /\ IF \E i \in DOMAIN blog_users : /\ blog_users[i].username = username
                                       /\ check_password_hash(blog_users[i].password, password)
       THEN resp' = Resp("blog-login", 200, "token", [username |-> username])
       ELSE resp' = Resp("blog-login", 401, "Invalid credentials", [username |-> username])
    /\ UNCHANGED <<dbvars, memvars, pending, blog_users, histvars>>

Next == \/ \E n \in UserNames : register_check(n)
        \/ \E k \in 1..MaxInflight : register_commit(k)
        \/ \E n \in UserNames, p \in Passwords : login(n, p)
        \/ \E t \in TokenInputs : get_self(t)
        \/ \E t \in TokenInputs : logout(t)
        \/ \E t \in TokenInputs, i \in Images \cup {None} : upload_profile_picture(t, i)
        \/ \E t \in TokenInputs, n \in UserNames \cup {"", None} : update_profile(t, n)
        \/ create_server
        \/ \E s \in RowIdInputs : create_channel(s)
        \/ \E u \in UserIdInputs : create_alternate_check(u)
        \/ \E k \in 1..MaxInflight : create_alternate_commit(k)
        \/ \E a \in AlternateIdInputs : delete_alternate(a)
        \/ \E t \in TokenInputs, r \in UserIdInputs \cup {MaxUsers + 1}, c \in Contents :
              send_private_message(t, r, c)
        \/ \E t \in TokenInputs, o \in UserIdInputs : get_private_messages(t, o)
        \/ \E i \in RowIdInputs, u \in UserIdInputs, c \in Contents \cup {""} :
              edit_private_message(i, u, c)
        \/ \E i \in RowIdInputs, u \in UserIdInputs : delete_private_message(i, u)
        \/ \E w \in Sockets, c \in ChannelIds : ws_accept(w, c)
        \/ \E w \in Sockets : ws_close(w)
        \/ \E w \in Sockets : ws_disconnect(w)
        \/ \E w \in Sockets, o \in SendFailures : ws_send(w, o)
        \/ \E w \in Sockets, t \in TokenInputs, c \in Contents, a \in AlternateIdInputs \cup {MaxAlternates + 1},
              o \in SendFailures : ws_receive(w, t, c, a, o)
        \/ run_task
        \/ \E i \in RowIdInputs, u \in UserIdInputs, c \in Contents \cup {""}, l \in RunningLoop :
              edit_message(i, u, c, l)
        \/ \E i \in RowIdInputs, u \in UserIdInputs, l \in RunningLoop : delete_message(i, u, l)
        \/ \E n \in UserNames, p \in Passwords : blog_register(n, p)
        \/ \E n \in UserNames, p \in Passwords : blog_login(n, p)

Spec == Init /\ [][Next]_vars

\* ------------------------------------------------------------- token lifecycle
\* The requests that read or write the tokens table, with one WebSocket
\* connection to carry the inbound frames.  Two users register one after
\* the other and log in any number of times.
NextAuth ==
    \/ pending = << >> /\ users = << >> /\ register_check("ann")
    \/ pending = << >> /\ Len(users) = 1 /\ register_check("bob")
    \/ register_commit(1)
    \/ \E n \in UserNames : login(n, "pw")
    \/ login("ann", "bad")
    \/ \E t \in TokenInputs : logout(t)
    \/ \E t \in TokenInputs : upload_profile_picture(t, "a.png")
    \/ \E t \in TokenInputs : send_private_message(t, 1, "hi")
    \/ \E t \in TokenInputs : get_private_messages(t, 1)
    \/ ws_accept(1, 1)
    \/ \E t \in TokenInputs : ws_receive(1, t, "hi", 0, "drop")
    \/ ws_send(1, "drop")

SpecAuth == Init /\ [][NextAuth]_vars

TokenOps == {"logout", "upload-profile-picture", "ws-message", "send-private",
             "private-messages"}

\* C4: a token is accepted by the token-checked operations exactly when a
\* login returned it and no logout was performed with it since; it acts for
\* the user who logged in, whatever else has happened in between.
TokenLifecycle ==
    /\ DOMAIN tokens = DOMAIN issued \ revoked
    /\ \A t \in DOMAIN tokens : tokens[t] = issued[t]
    /\ resp.op \in TokenOps =>
          IF resp.detail = "Invalid token"
          THEN resp.arg.token \notin DOMAIN issued \/ resp.arg.token \in revoked
          ELSE /\ resp.arg.token \in DOMAIN issued
               /\ resp.arg.user_id = issued[resp.arg.token]
               /\ resp.arg.token \in revoked => resp.op = "logout"

\* A token that a login returned and a logout has ended is presented again
\* and is refused.
TokenRejectedAfterLogout ==
    /\ resp.op \in TokenOps \ {"logout"}
    /\ resp.detail = "Invalid token"
    /\ resp.arg.token \in revoked

\* ------------------------------------------------------------- ownership
\* One user writes channel messages and private messages; edit and delete
\* requests come with any id and any user_id, with and without a session.
NextOwn ==
    \/ pending = << >> /\ register_check("ann")
    \/ register_commit(1)
    \/ login("ann", "pw")
    \/ logout(1)
    \/ ws_accept(1, 1)
    \/ ws_receive(1, 1, "hi", 0, "drop")
    \/ ws_send(1, "drop")
    \/ send_private_message(1, 1, "hi")
    \/ \E i \in RowIdInputs, u \in {0, 1, 2}, c \in {"yo", ""} : edit_message(i, u, c, FALSE)
    \/ \E i \in RowIdInputs, u \in {0, 1, 2} : delete_message(i, u, FALSE)
    \/ \E i \in RowIdInputs, u \in {0, 1, 2}, c \in {"yo", ""} : edit_private_message(i, u, c)
    \/ \E i \in RowIdInputs, u \in {0, 1, 2} : delete_private_message(i, u)

SpecOwn == Init /\ [][NextOwn]_vars

EditOps == {"edit-message", "edit-private"}
DeleteOps == {"delete-message", "delete-private"}

\* The table a request is about, and the sender column of its rows.
TableOf(op, msgs, pms) == IF op \in {"edit-message", "delete-message"} THEN msgs ELSE pms

SenderOf(op, row) == IF op \in {"edit-message", "delete-message"} THEN row.user_id ELSE row.sender_id

\* The row exists and the caller-supplied user_id is its sender's.
OwnRow(r) ==
    /\ r.arg.id \in DOMAIN TableOf(r.op, messages, private_messages)
    /\ SenderOf(r.op, TableOf(r.op, messages, private_messages)[r.arg.id]) = r.arg.user_id

\* The row exists and the caller-supplied user_id is not its sender's.
OthersRow(r) ==
    /\ r.arg.id \in DOMAIN TableOf(r.op, messages, private_messages)
    /\ SenderOf(r.op, TableOf(r.op, messages, private_messages)[r.arg.id]) # r.arg.user_id

\* What a request did to its table: the row rewritten, the row removed, nothing.
Rewritten(r) ==
    TableOf(r.op, messages', private_messages') =
        [TableOf(r.op, messages, private_messages) EXCEPT
            ![r.arg.id].content = r.arg.new_content, ![r.arg.id].is_edited = TRUE]

Removed(r) ==
    TableOf(r.op, messages', private_messages') =
        Drop(TableOf(r.op, messages, private_messages), r.arg.id)

Untouched(r) == messages' = messages /\ private_messages' = private_messages

\* The fields a request must carry: ids that are not 0 and, for an edit, new
\* content that is not empty.
FieldsPresent(r) ==
    /\ r.arg.id # 0
    /\ r.arg.user_id # 0
    /\ r.op \in EditOps => r.arg.new_content # ""

\* C5 as stated: an edit or delete request goes through if and only if the
\* row exists and the caller-supplied user_id is the row's sender id, and is
\* refused with 403, the row untouched, whenever a user_id is supplied and
\* the two ids differ.
OwnershipCheck ==
    [][resp'.op \in EditOps \cup DeleteOps =>
          /\ resp'.status = 200 <=> OwnRow(resp')
          /\ resp'.arg.user_id # 0 /\ OthersRow(resp') =>
                resp'.status = 403 /\ Untouched(resp')]_vars

\* C5 as amended: an edit or delete request that carries its required fields
\* goes through if and only if the row exists and the caller-supplied user_id
\* is the row's sender id, whether or not any session exists; it then
\* rewrites (removes) exactly that row.  With the fields present and another
\* sender's row it is refused with 403; every refusal leaves the tables as
\* they were.  A request that lacks a field is refused with 400.
OwnershipCheckAmended ==
    [][resp'.op \in EditOps \cup DeleteOps =>
          /\ resp'.status = 200 <=> FieldsPresent(resp') /\ OwnRow(resp')
          /\ resp'.status = 200 /\ resp'.op \in EditOps => Rewritten(resp')
          /\ resp'.status = 200 /\ resp'.op \in DeleteOps => Removed(resp')
          /\ resp'.status # 200 => Untouched(resp')
          /\ FieldsPresent(resp') /\ OthersRow(resp') => resp'.status = 403
          /\ ~FieldsPresent(resp') => resp'.status = 400]_vars

\* The sender's own row is rewritten by a request made while no session
\* token exists at all.
OwnerEditWithoutSession ==
    /\ resp.op \in EditOps
    /\ resp.status = 200
    /\ DOMAIN tokens = {}
    /\ revoked # {}

\* ------------------------------------------------------------- chat
\* One logged-in user, connections that come, send and go, and edit and
\* delete requests on the messages sent.
NextChat ==
    \/ pending = << >> /\ register_check("ann")
    \/ register_commit(1)
    \/ login("ann", "pw")
    \/ \E w \in Sockets : ws_accept(w, 1)
    \/ \E w \in Sockets : ws_close(w)
    \/ \E w \in Sockets : ws_disconnect(w)
    \/ \E w \in Sockets, t \in {0, 1}, a \in {0, 1}, o \in SendFailures :
          ws_receive(w, t, "hi", a, o)
    \/ \E w \in Sockets, o \in SendFailures : ws_send(w, o)
    \/ run_task
    \/ \E i \in RowIdInputs, u \in {1, 2}, l \in RunningLoop : edit_message(i, u, "yo", l)
    \/ \E i \in RowIdInputs, u \in {1, 2}, l \in RunningLoop : delete_message(i, u, l)

SpecChat == Init /\ [][NextChat]_vars

\* One session and two connections, the second of which may leave: message,
\* edit and delete requests, accepted and rejected, with every send to a
\* connection that has left raising WebSocketDisconnect.
NextOrder ==
    \/ pending = << >> /\ users = << >> /\ register_check("ann")
    \/ register_commit(1)
    \/ tokens = << >> /\ login("ann", "pw")
    \/ \E w \in Sockets : ws_accept(w, 1)
    \/ ws_close(2)
    \/ ws_disconnect(2)
    \/ \E w \in Sockets, t \in {0, 1} : ws_receive(w, t, "hi", 0, "disconnect")
    \/ \E w \in Sockets : ws_send(w, "disconnect")
    \/ run_task
    \/ \E i \in RowIdInputs, u \in {1, 2}, l \in RunningLoop : edit_message(i, u, "yo", l)
    \/ \E i \in RowIdInputs, u \in {1, 2}, l \in RunningLoop : delete_message(i, u, l)

SpecOrder == Init /\ [][NextOrder]_vars

Frames(s) == {s[i] : i \in 1..Len(s)}

\* Every event frame that exists anywhere: received, scheduled, or held by a
\* handler in the middle of its fan-out.
AllFrames ==
    UNION {Frames(inbox[w]) : w \in Sockets}
        \cup {tasks[i].payload : i \in 1..Len(tasks)}
        \cup {ws[w].payload : w \in {v \in Sockets : ws[v].pc = "send"}}

FramesCommitted ==
    \A f \in AllFrames : [kind |-> f.event, id |-> f.id, seq |-> f.seq] \in committed

Rejected(r) ==
    \/ r.op \in {"edit-message", "delete-message"} /\ r.status # 200
    \/ r.op = "ws-message" /\ r.detail \in {"Invalid token", "User not found"}

Owed(x, sender) == ws[x].client # "closed" /\ (Live(x) \/ x = sender)

\* C1: once the handler of an inbound message with a valid token is through
\* with it, the row is committed and every connection that was in the
\* channel's list when the message arrived, the sender's included, and is
\* still there has the "new" frame.
FanOutComplete ==
    \A w \in Sockets :
        ws[w].pc \in {"recv", "done"} /\ ws[w].targets # {} =>
            /\ [kind |-> "new", id |-> ws[w].payload.id, seq |-> ws[w].payload.seq]
                   \in committed
            /\ \A x \in ws[w].targets :
                  Owed(x, w) => ws[w].payload \in Frames(inbox[x])

\* C2: when a send of a fan-out fails, the failure is swallowed: every other
\* connection of the channel, the sender's included, still gets the frame
\* or has the fan-out still on its way to it.
BestEffortDelivery ==
    resp.op \in {"ws-message", "ws-send"} /\ resp.detail \in {"disconnect", "error"} =>
        \A x \in ws[resp.arg.w].targets \ {resp.arg.conn} :
            Owed(x, resp.arg.w) =>
                \/ resp.arg.payload \in Frames(inbox[x])
                \/ ws[resp.arg.w].pc = "send"

\* C3: right after a successful edit-message or delete-message request, the
\* "edit" or "delete" frame with the message id is on its way to every live
\* connection in the list of the message's channel.
EditDeleteBroadcast ==
    resp.op \in {"edit-message", "delete-message"} /\ resp.status = 200 =>
        \A x \in Members(resp.arg.channel_id) :
            Live(x) => \E i \in 1..Len(tasks) :
                          /\ tasks[i].conn = x
                          /\ tasks[i].payload.id = resp.arg.id
                          /\ tasks[i].payload.seq = resp.arg.seq
                          /\ tasks[i].payload.event =
                                IF resp.op = "edit-message" THEN "edit" ELSE "delete"

\* C9: the list of channel c holds exactly the connections accepted on c
\* that have not disconnected: every live connection is in the list of its
\* channel, once, and every connection in a list is one whose handler has
\* not ended.
LiveConnections ==
    /\ \A w \in Sockets : Live(w) => w \in Members(ws[w].channel_id)
    /\ \A c \in DOMAIN active_connections :
          /\ \A x \in Members(c) : ws[x].channel_id = c /\ ws[x].pc # "done"
          /\ Cardinality(Members(c)) = Len(active_connections[c])

\* ------------------------------------------------------------- rows
\* Accounts of both services, with registrations that interleave.
NextUsers ==
    \/ \E n \in UserNames : register_check(n)
    \/ \E k \in 1..MaxInflight : register_commit(k)
    \/ \E n \in UserNames, p \in Passwords : login(n, p)
    \/ \E t \in TokenInputs : get_self(t)
    \/ \E t \in TokenInputs, n \in UserNames \cup {"", None} : update_profile(t, n)
    \/ \E n \in UserNames, p \in Passwords : blog_register(n, p)
    \/ \E n \in UserNames, p \in Passwords : blog_login(n, p)

SpecUsers == Init /\ [][NextUsers]_vars

\* C6: no two rows of a users table have the same username.
UsernameUnique ==
    /\ \A i, j \in DOMAIN users : i # j => users[i].username # users[j].username
    /\ \A i, j \in DOMAIN blog_users : i # j => blog_users[i].username # blog_users[j].username

\* Every request that creates a row holding a reference.
NextRefs ==
    \/ pending = << >> /\ register_check("ann")
    \/ register_commit(1)
    \/ login("ann", "pw")
    \/ create_server
    \/ \E s \in RowIdInputs : create_channel(s)
    \/ \E u \in UserIdInputs :
          pending = << >> /\ alternate_profiles = << >> /\ create_alternate_check(u)
    \/ create_alternate_commit(1)
    \/ \E a \in AlternateIdInputs : delete_alternate(a)
    \/ \E t \in TokenInputs, r \in UserIdInputs \cup {MaxUsers + 1} :
          send_private_message(t, r, "hi")
    \/ \E c \in ChannelIds : ws_accept(1, c)
    \/ \E t \in TokenInputs, a \in AlternateIdInputs : ws_receive(1, t, "hi", a, "drop")
    \/ ws_send(1, "drop")

SpecRefs == Init /\ [][NextRefs]_vars

\* C7: every stored reference points to an existing row.
ForeignKeys ==
    /\ \A m \in DOMAIN messages : messages[m].channel_id \in DOMAIN channels
    /\ \A c \in DOMAIN channels : channels[c] \in servers
    /\ \A a \in DOMAIN alternate_profiles : alternate_profiles[a] \in DOMAIN users
    /\ \A p \in DOMAIN private_messages :
          /\ private_messages[p].sender_id \in DOMAIN users
          /\ private_messages[p].receiver_id \in DOMAIN users

\* The HTTP requests that are given a token, a server id or credentials.
NextErrors ==
    \/ pending = << >> /\ register_check("ann")
    \/ register_commit(1)
    \/ \E n \in UserNames, p \in Passwords : login(n, p)
    \/ \E t \in TokenInputs : get_self(t)
    \/ \E t \in TokenInputs : logout(t)
    \/ \E t \in TokenInputs, i \in Images \cup {None} : upload_profile_picture(t, i)
    \/ \E t \in TokenInputs, n \in UserNames \cup {""} : update_profile(t, n)
    \/ create_server
    \/ \E s \in RowIdInputs : create_channel(s)
    \/ \E t \in TokenInputs : send_private_message(t, 1, "hi")
    \/ \E t \in TokenInputs : get_private_messages(t, 1)
    \/ \E n \in UserNames, p \in Passwords : blog_register(n, p)
    \/ \E n \in UserNames, p \in Passwords : blog_login(n, p)

SpecErrors == Init /\ [][NextErrors]_vars

ErrorStatuses == {400, 401, 403, 404}

\* C8: a request given a token that names no row, a server id that names no
\* row, or credentials that match no row is answered 400, 401, 403 or 404.
UniformErrors ==
    /\ /\ resp.op \in {"get-self", "logout", "upload-profile-picture", "update-profile",
                       "send-private", "private-messages"}
       /\ resp.arg.token \notin DOMAIN issued
       => resp.status \in ErrorStatuses
    /\ resp.op = "create-channel" /\ resp.arg.server_id \notin servers
       => resp.status \in ErrorStatuses
    /\ resp.op \in {"login", "blog-login"} /\ resp.status # 200
       => resp.status \in ErrorStatuses

\* ------------------------------------------------------------- alternates
\* One user creates alternate profiles, with up to MaxInflight requests
\* between their count and their insert, and unlinks the first two.
NextCap ==
    \/ pending = << >> /\ users = << >> /\ register_check("ann")
    \/ register_commit(1)
    \/ create_alternate_check(1)
    \/ \E k \in 1..MaxInflight : create_alternate_commit(k)
    \/ \E a \in {1, 2} : delete_alternate(a)

SpecCap == Init /\ [][NextCap]_vars

\* C11: no user owns more than 20 alternate profiles, and a create-alternate
\* request that is answered 200 was made for a user who owned fewer than 20.
AlternateCapHolds ==
    /\ \A u \in DOMAIN users : Cardinality(Alternates(u)) <= AlternateCap
    /\ resp.op = "create-alternate" /\ resp.status = 200 =>
          Cardinality(Alternates(resp.arg.user_id)) <= AlternateCap

\* ------------------------------------------------------------- membership change
\* One session; connections join channel 1, send, and leave while the
\* fan-out of another handler is suspended in a send.  A send to a
\* connection that is gone is dropped, so no fan-out ends early.
NextChurn ==
    \/ pending = << >> /\ users = << >> /\ register_check("ann")
    \/ register_commit(1)
    \/ tokens = << >> /\ login("ann", "pw")
    \/ \E w \in Sockets : ws_accept(w, 1)
    \/ \E w \in Sockets : ws_close(w)
    \/ \E w \in Sockets : ws_disconnect(w)
    \/ \E w \in Sockets : ws_receive(w, 1, "hi", 0, "drop")
    \/ \E w \in Sockets : ws_send(w, "drop")

SpecChurn == Init /\ [][NextChurn]_vars

\* How many times frame f is in the sequence s.
Count(s, f) == Cardinality({i \in 1..Len(s) : s[i] = f})

\* C12: when the fan-out of a handler has run to its end, every connection
\* that was in the channel's list when the fan-out began, is still in it and
\* is live has the frame exactly once, whoever joined or left meanwhile.
FanOutUnderChurn ==
    \A w \in Sockets :
        ws[w].pc = "recv" /\ ws[w].targets # {} =>
            \A x \in ws[w].targets \cap Members(ws[w].channel_id) :
                Live(x) => Count(inbox[x], ws[w].payload) = 1

\* ------------------------------------------------------------- channel isolation
\* One session and two connections, each on either channel: messages are
\* sent, edited and deleted while connections come and go.
NextIso ==
    \/ pending = << >> /\ users = << >> /\ register_check("ann")
    \/ register_commit(1)
    \/ tokens = << >> /\ login("ann", "pw")
    \/ \E w \in Sockets, c \in ChannelIds : ws_accept(w, c)
    \/ ws_close(2)
    \/ ws_disconnect(2)
    \/ \E w \in Sockets : ws_receive(w, 1, "hi", 0, "disconnect")
    \/ \E w \in Sockets : ws_send(w, "disconnect")
    \/ run_task
    \/ \E i \in RowIdInputs, l \in RunningLoop : edit_message(i, 1, "yo", l)
    \/ \E i \in RowIdInputs, l \in RunningLoop : delete_message(i, 1, l)

SpecIso == Init /\ [][NextIso]_vars

\* The frames a step has newly scheduled.
Scheduled == {tasks'[i].payload : i \in (Len(tasks) + 1)..Len(tasks')}

====
